---------------------------- MODULE Spec2Model ----------------------------
(***************************************************************************)
(* MalletCorpus (gensim/corpora/malletcorpus.py): a corpus stored one      *)
(* document per line as "<doc-id> <label> <token> <token> ...".            *)
(*                                                                         *)
(* Representation.  A text is a sequence of characters, a character being  *)
(* a one-character string; "U+E9" stands for the single non-ASCII          *)
(* character e-acute, and "x0B", "x1C" .. "x1F" for the control characters *)
(* of these codes.  A file is a sequence of bytes; an ASCII byte is        *)
(* written as its character, and "xC3", "xA9" are the two bytes of the     *)
(* UTF-8 encoding of U+E9.  A count is a fixed-point number in units of    *)
(* 1e-7, so that values closer to an integer than the tolerance 1e-6 of    *)
(* save_corpus exist; it stands for the Python float, the double, nearest  *)
(* to it.                                                                  *)
(*                                                                         *)
(* The module is written in Python 2 (from __future__ import               *)
(* with_statement), where a string given to save_corpus is either a        *)
(* unicode object or a str, a byte string.  The model carries the content  *)
(* of such a string as a text (that of a byte string being the text its    *)
(* bytes encode in UTF-8) and its type apart: unicode_words for the words  *)
(* of the mapping of save_corpus, unicode_meta for the doc-ids and labels. *)
(* The words of the mapping of the corpus object, self.id2word, are        *)
(* unicode objects, as the tokens are that line 58 decodes; a corpus       *)
(* object whose mapping holds non-ASCII words as byte strings is not among *)
(* the objects modelled.                                                   *)
(***************************************************************************)
EXTENDS Integers, Sequences, FiniteSets, TLC

(***************************************************************************)
(* Bounds of the model.                                                    *)
(***************************************************************************)
MaxDocs == 2
MaxLines == 2
MaxSkew == 2

(***************************************************************************)
(* Numbers.                                                                *)
(***************************************************************************)
\* 1e-6 (line 102), in units of 1e-7
Tolerance == 10
\* the number 1 in units of 1e-7
One == Tolerance * 1000000

Abs(v) == IF v < 0 THEN -v ELSE v

\* int(value): truncation toward zero
Trunc(v) == IF v >= 0 THEN v \div One ELSE -((-v) \div One)

\* a variant without the tolerance
NotIntegralExact(v) == Trunc(v) * One # v

\* the integer parts n below 16 for which the double nearest to n + 1e-6 is
\* farther from n than the double 1e-6: it is for 2.000001 .. 7.000001, it is
\* not for 0.000001, 1.000001 and 8.000001 .. 15.000001
RoundedAway == 2..7

\* abs(int(value) - value) > 1e-6, a comparison of doubles; the counts of the
\* model are below 16
NotIntegral(v) ==
    LET d == Abs(Trunc(v) * One - v)
    IN d > Tolerance \/ (d = Tolerance /\ Abs(Trunc(v)) \in RoundedAway)

(***************************************************************************)
(* Texts and bytes.                                                        *)
(***************************************************************************)
Digits == <<"0", "1", "2", "3", "4", "5", "6", "7", "8", "9">>

RECURSIVE Str(_)
\* '%s' % n, str(n) for an integer n >= 0: its decimal rendering
Str(n) == IF n < 10 THEN <<Digits[n + 1]>>
          ELSE Str(n \div 10) \o <<Digits[(n % 10) + 1]>>

RECURSIVE Repeat(_, _)
\* [x] * n: the empty list when n <= 0
Repeat(x, n) == IF n <= 0 THEN <<>> ELSE <<x>> \o Repeat(x, n - 1)

RECURSIVE Join(_)
\* ' '.join(words)
Join(words) ==
    IF words = <<>> THEN <<>>
    ELSE IF Len(words) = 1 THEN words[1]
    ELSE words[1] \o <<" ">> \o Join(Tail(words))

RECURSIVE ToUtf8(_)
\* utils.to_utf8: the UTF-8 bytes of a text
ToUtf8(text) ==
    IF text = <<>> THEN <<>>
    ELSE (IF text[1] = "U+E9" THEN <<"xC3", "xA9">> ELSE <<text[1]>>)
         \o ToUtf8(Tail(text))

RECURSIVE Decodable(_)
\* whether utils.to_unicode (strict UTF-8 decoding) accepts the bytes
Decodable(bytes) ==
    IF bytes = <<>> THEN TRUE
    ELSE IF bytes[1] = "xC3"
         THEN Len(bytes) >= 2 /\ bytes[2] = "xA9" /\ Decodable(Tail(Tail(bytes)))
    ELSE IF bytes[1] = "xA9" THEN FALSE
    ELSE Decodable(Tail(bytes))

RECURSIVE ToUnicode(_)
\* utils.to_unicode of decodable bytes
ToUnicode(bytes) ==
    IF bytes = <<>> THEN <<>>
    ELSE IF bytes[1] = "xC3" THEN <<"U+E9">> \o ToUnicode(Tail(Tail(bytes)))
    ELSE <<bytes[1]>> \o ToUnicode(Tail(bytes))

\* whether every character of the text is an ASCII one
Ascii(text) == \A i \in 1..Len(text) : text[i] # "U+E9"

\* the characters unicode.strip() removes, of those a decoded line of the
\* model can hold: the ASCII ones (U+E9 is no space)
Whitespace == {" ", "\t", "\n", "\r", "\f", "x0B", "x1C", "x1D", "x1E", "x1F"}

RECURSIVE LStrip(_)
LStrip(s) == IF s # <<>> /\ s[1] \in Whitespace THEN LStrip(Tail(s)) ELSE s

RECURSIVE RStrip(_)
RStrip(s) == IF s # <<>> /\ s[Len(s)] \in Whitespace
             THEN RStrip(SubSeq(s, 1, Len(s) - 1)) ELSE s

\* s.strip()
Strip(s) == RStrip(LStrip(s))

RECURSIVE SplitAcc(_, _, _)
SplitAcc(s, cur, sep) ==
    IF s = <<>> THEN <<cur>>
    ELSE IF s[1] \in sep THEN <<cur>> \o SplitAcc(Tail(s), <<>>, sep)
    ELSE SplitAcc(Tail(s), Append(cur, s[1]), sep)

\* s.split(' '): the fields between single spaces, empty ones included
Split(s) == SplitAcc(s, <<>>, {" "})

RECURSIVE NonEmpty(_)
\* [word for word in fields if word]
NonEmpty(fields) ==
    IF fields = <<>> THEN <<>>
    ELSE (IF fields[1] = <<>> THEN <<>> ELSE <<fields[1]>>) \o NonEmpty(Tail(fields))

(***************************************************************************)
(* The vocabulary.                                                         *)
(***************************************************************************)
\* the ids a document may use; 2 is not in the supplied mapping
Ids == {0, 1, 2}

\* the id2word mapping the caller supplies: 0 -> "ab", 1 -> e-acute; given
\* to a corpus object its words are unicode objects, given to save_corpus
\* they are unicode objects or byte strings (unicode_words)
Id2Word == (0 :> <<"a", "b">>) @@ (1 :> <<"U+E9">>)

\* the token-to-id lookup of the mapping m, its inverse: whether the token,
\* a unicode object, is a word of m, these being unicode objects too, and
\* the id it is the word of
InVocab(m, token) == \E id \in DOMAIN m : m[id] = token

Word2Id(m, token) == CHOOSE id \in DOMAIN m : m[id] = token

(***************************************************************************)
(* Decoding a line.                                                        *)
(***************************************************************************)
\* words.count(w)
Count(words, w) == Cardinality({i \in 1..Len(words) : words[i] = w})

RECURSIVE UseWords(_, _, _)
\* the distinct words of the vocabulary, in the order of their first occurrence
UseWords(words, seen, m) ==
    IF words = <<>> THEN <<>>
    ELSE IF InVocab(m, words[1]) /\ words[1] \notin seen
         THEN <<words[1]>> \o UseWords(Tail(words), seen \cup {words[1]}, m)
    ELSE UseWords(Tail(words), seen, m)

\* LowCorpus.line2doc: the words of the text, as (id, number of occurrences)
LowLine2Doc(text, m) ==
    LET words == Split(Strip(text))
        use == UseWords(words, {}, m)
    IN [i \in 1..Len(use) |-> <<Word2Id(m, use[i]), Count(words, use[i])>>]

\* what a decoding returns or raises
Raised(err) == [err |-> err, shape |-> "none", doc |-> <<>>, meta |-> <<>>]

Returned(doc, withmeta, meta) ==
    [err |-> "none", shape |-> IF withmeta THEN "doc,meta" ELSE "doc",
     doc |-> doc, meta |-> IF withmeta THEN meta ELSE <<>>]

\* a variant that cuts at any whitespace, as split() would
FieldsAnyWhitespace(line) ==
    NonEmpty(SplitAcc(Strip(ToUnicode(line)), <<>>, Whitespace))

\* l = [word for word in to_unicode(line).strip().split(' ') if word]
Fields(line) == NonEmpty(Split(Strip(ToUnicode(line))))

\* a variant that takes the label for the first word: words = l[1:]
line2docLabelAsWord(line, withmeta, m) ==
    IF ~Decodable(line) THEN Raised("UnicodeDecodeError")
    ELSE LET l == Fields(line) IN
         IF Len(l) < 2 THEN Raised("IndexError")
         ELSE Returned(LowLine2Doc(Join(SubSeq(l, 2, Len(l))), m),
                       withmeta, <<l[1], l[2]>>)

\* MalletCorpus.line2doc
line2doc(line, withmeta, m) ==
    IF ~Decodable(line) THEN Raised("UnicodeDecodeError")
    ELSE LET l == Fields(line) IN
         IF Len(l) < 2 THEN Raised("IndexError")
         ELSE LET docid == l[1]
                  doclang == l[2]
                  words == SubSeq(l, 3, Len(l))
              IN Returned(LowLine2Doc(Join(words), m), withmeta,
                          <<docid, doclang>>)

(***************************************************************************)
(* Reading a file.                                                         *)
(***************************************************************************)
RECURSIVE LinesAcc(_, _)
LinesAcc(bytes, cur) ==
    IF bytes = <<>> THEN (IF cur = <<>> THEN <<>> ELSE <<cur>>)
    ELSE IF bytes[1] = "\n" THEN <<Append(cur, "\n")>> \o LinesAcc(Tail(bytes), <<>>)
    ELSE LinesAcc(Tail(bytes), Append(cur, bytes[1]))

\* for line in f: the lines of the file, each with its newline
Lines(bytes) == LinesAcc(bytes, <<>>)

RECURSIVE SkipBlank(_)
SkipBlank(ls) ==
    IF ls = <<>> THEN <<>>
    ELSE (IF ls[1] = <<"\n">> THEN <<>> ELSE <<ls[1]>>) \o SkipBlank(Tail(ls))

\* a variant that passes over the blank lines
IterLinesNonBlank(bytes) == SkipBlank(Lines(bytes))

\* for line in f, in __iter__
IterLines(bytes) == Lines(bytes)

\* a variant without the seek: the first line of the file
ReadLineNoSeek(bytes, offset) ==
    LET ls == Lines(bytes)
    IN IF ls = <<>> THEN <<>> ELSE ls[1]

\* f.seek(offset); f.readline()
ReadLine(bytes, offset) ==
    LET rest == SubSeq(bytes, offset + 1, Len(bytes))
        ls == Lines(rest)
    IN IF ls = <<>> THEN <<>> ELSE ls[1]

(***************************************************************************)
(* Writing a corpus.                                                       *)
(***************************************************************************)
\* the literal '__unknown__'
Unknown == <<"_", "_", "u", "n", "k", "n", "o", "w", "n", "_", "_">>

\* doc = doc[0] when metadata, else the entry itself
DocOf(entry, md) == IF md THEN entry[1] ELSE entry

\* doc_id: enumerate's index, overwritten by doc[1][0] when metadata
DocId(pos, entry, md) == IF md THEN entry[2][1] ELSE Str(pos)

\* doc_lang: doc[1][1] when metadata, else '__unknown__'
DocLang(entry, md) == IF md THEN entry[2][2] ELSE Unknown

\* whether str(id2word[wordid]) raises UnicodeEncodeError: str() of a
\* unicode object encodes it with the ASCII codec, str() of a str is itself
StrRaises(m, id, uwords) == id \in DOMAIN m /\ uwords /\ ~Ascii(m[id])

RECURSIVE Words(_, _)
\* words.extend([str(id2word[wordid])] * int(value)), pair after pair, where
\* str() raises for no word (StrRaises): the words as byte strings, each
\* carried as the text it encodes
Words(doc, m) ==
    IF doc = <<>> THEN <<>>
    ELSE Repeat(m[doc[1][1]], Trunc(doc[1][2])) \o Words(Tail(doc), m)

\* whether str(id2word[wordid]) raises for the pair, whatever its count
PairRaises(pair, m, uwords) ==
    pair[1] \notin DOMAIN m \/ StrRaises(m, pair[1], uwords)

\* the first pair at which line 104 raises, 0 when there is none
FirstFailing(doc, m, uwords) ==
    IF \E i \in 1..Len(doc) : PairRaises(doc[i], m, uwords)
    THEN CHOOSE i \in 1..Len(doc) :
            /\ PairRaises(doc[i], m, uwords)
            /\ \A j \in 1..(i - 1) : ~PairRaises(doc[j], m, uwords)
    ELSE 0

\* the exception line 104 raises at the pair
LookupError(pair, m) ==
    IF pair[1] \notin DOMAIN m THEN "KeyError" ELSE "UnicodeEncodeError"

\* whether the formatting of line 106 raises UnicodeDecodeError: with a
\* unicode doc-id or label the result is unicode, and the joined words, a
\* byte string, are decoded with the ASCII codec
FormatRaises(entry, md, umeta, m) ==
    md /\ umeta /\ ~Ascii(Join(Words(DocOf(entry, md), m)))

\* the truncated += 1 executed over the first n pairs of the document
Truncations(doc, n) == Cardinality({i \in 1..n : NotIntegral(doc[i][2])})

\* '%s %s %s\n' % (doc_id, doc_lang, ' '.join(words)), as UTF-8
SaveLine(pos, entry, md, m) ==
    ToUtf8(DocId(pos, entry, md) \o <<" ">> \o DocLang(entry, md) \o <<" ">>
           \o Join(Words(DocOf(entry, md), m)) \o <<"\n">>)

\* a variant that counts characters
TellChars(bytes) == Len(ToUnicode(bytes))

\* fout.tell(): the number of bytes written so far
Tell(bytes) == Len(bytes)

\* whether utils.dict_from_corpus(corpus) raises: it takes every entry of
\* the corpus for a bag of (id, count) pairs, and an entry of metadata mode
\* is a (bag, (doc-id, label)) pair
DictRaises(c, md) == md /\ c # <<>>

\* ValueError when a bag does not unpack into two, else TypeError when the
\* largest "id", a doc-id, is added to 1
DictError(c) ==
    IF \E d \in 1..Len(c) : Len(c[d][1]) # 2 THEN "ValueError" ELSE "TypeError"

\* utils.get_max_id of a corpus of bags
MaxId(c) ==
    LET IdsOf(doc) == {doc[i][1] : i \in 1..Len(doc)}
        used == UNION {IdsOf(c[d]) : d \in 1..Len(c)}
    IN IF used = {} THEN -1 ELSE CHOOSE x \in used : \A y \in used : y <= x

\* utils.dict_from_corpus: every id up to the largest one, named by its
\* number, a str
DictFromCorpus(c) == [id \in 0..MaxId(c) |-> Str(id)]

\* what an I/O error leaves of the bytes written to the buffered file: the
\* part that reached the disk, any of them short of the whole
Flushed(bytes) == {SubSeq(bytes, 1, k) : k \in 0..(Len(bytes) - 1)}

\* entering and leaving a "with utils.smart_open(...)" block
Open(h) == h + 1

\* a variant that leaves the file open
Leak(h) == h

Close(h) == h - 1

(***************************************************************************)
(* Inputs.                                                                 *)
(***************************************************************************)
\* the bags of words a corpus is made of; of the counts 1e-6 from an
\* integer, the float 1.000001 is within the tolerance and 3.000001 is not
BowPool ==
    { <<>>,
      << <<0, 2 * One>> >>,
      << <<1, One>>, <<0, 3 * One>> >>,
      << <<0, 0>> >>,
      << <<0, (27 * One) \div 10>>, <<1, One + Tolerance>> >>,
      << <<0, -((15 * One) \div 10)>>, <<1, 3 * One + Tolerance>> >>,
      << <<1, -One>>, <<0, One>> >>,
      << <<0, One>>, <<2, One>> >> }

\* the (doc-id, label) a document carries in metadata mode
MetaOf(bow) == IF Len(bow) = 1 THEN << <<"0">>, <<"U+E9">> >>
               ELSE << <<"7">>, <<"e", "n">> >>

Docs(md) == IF md THEN {<<bow, MetaOf(bow)>> : bow \in BowPool} ELSE BowPool

Corpora(md) == UNION {[1..n -> Docs(md)] : n \in 0..MaxDocs}

\* the lines of a file that save_corpus did not write
LinePool ==
    { <<"7", " ", "e", "n", " ", "a", "b", " ", "xC3", "xA9", " ", "a", "b", "\n">>,
      <<"\n">>,
      <<" ", "8", " ", " ", "f", "r", " ", "z", " ", " ", "a", "b", " ", "\n">>,
      <<"\t", "7", " ", "e", "n", "\r", "\n">>,
      <<"7", "\t", "e", "n", "\n">>,
      <<" ", "\f", "\n">>,
      <<"7", " ", "xA9", "\n">>,
      <<"a", "b", " ", "a", "b", " ", "a", "b", "\n">> }

RECURSIVE Concat(_)
Concat(ls) == IF ls = <<>> THEN <<>> ELSE ls[1] \o Concat(Tail(ls))

\* a last line may lack its newline
Chop(bytes) == SubSeq(bytes, 1, Len(bytes) - 1)

InitialFiles ==
    LET whole == {Concat(ls) : ls \in UNION {[1..n -> LinePool] : n \in 0..MaxLines}}
    IN whole \cup {Chop(f) : f \in whole \ {<<>>}}

(***************************************************************************)
(* The state: one file, one MalletCorpus object reading it, one call of    *)
(* save_corpus writing it, and one generator returned by __iter__.         *)
(***************************************************************************)
VARIABLES
    file,           \* the bytes of the file fname
    handles,        \* the number of open handles on the file
    metadata,       \* self.metadata of the corpus object
    id2word,        \* self.id2word of the corpus object, of unicode words
    save_id2word,   \* save_corpus: its mapping id2word, given or built
    unicode_words,  \* save_corpus: whether the words of its id2word are unicode
    unicode_meta,   \* save_corpus: whether the doc-ids and labels are unicode
    corpus,         \* save_corpus: the documents given
    save_metadata,  \* save_corpus: its metadata argument
    save_pc,        \* save_corpus: "idle", "writing" (at line 93),
                    \* "appended" (behind line 105), "done", "raised"
    save_err,       \* save_corpus: the exception it raised
    offsets,        \* save_corpus: offsets
    truncated,      \* save_corpus: truncated
    warnings,       \* the numbers reported by logger.warning
    it_pc,          \* the generator: "none", "created", "suspended",
                    \* "abandoned", "done", "raised", "closed"
    it_pos,         \* the generator: the lines it has read
    yielded,        \* the generator: what it has yielded
    out             \* what the last call on the corpus object returned

vars == <<file, handles, metadata, id2word, save_id2word, unicode_words,
          unicode_meta, corpus, save_metadata, save_pc, save_err, offsets,
          truncated, warnings, it_pc, it_pos, yielded, out>>

\* the corpus object
self_vars == <<metadata, id2word>>

\* the arguments of save_corpus
arg_vars == <<save_id2word, unicode_words, unicode_meta, corpus, save_metadata>>

save_vars == <<save_id2word, unicode_words, unicode_meta, corpus, save_metadata,
               save_pc, save_err, offsets, truncated, warnings>>

\* the generator of __iter__, and the result of the last call
it_vars == <<it_pc, it_pos, yielded, out>>

NoOut == [op |-> "none", arg |-> 0, n |-> 0, res |-> Raised("none")]

Init ==
    /\ file \in InitialFiles
    /\ handles = 0
    /\ metadata \in BOOLEAN
    /\ id2word = Id2Word
    /\ save_id2word = <<>>
    /\ unicode_words = FALSE
    /\ unicode_meta = FALSE
    /\ corpus = <<>>
    /\ save_metadata = FALSE
    /\ save_pc = "idle"
    /\ save_err = "none"
    /\ offsets = <<>>
    /\ truncated = 0
    /\ warnings = <<>>
    /\ it_pc = "none"
    /\ it_pos = 0
    /\ yielded = <<>>
    /\ out = NoOut

(***************************************************************************)
(* save_corpus(fname, corpus, id2word, metadata), a static method: its     *)
(* mapping is its own, that of a corpus object is not touched.             *)
(***************************************************************************)
\* the id2word argument: a mapping to unicode words, to str words, or None
Mappings == {"unicode", "str", "None"}

\* the file save_corpus finds: an empty one, or one blank line
OldFiles == {<<>>, <<"\n">>}

\* the call comes first: the corpus object has read nothing yet
Callable ==
    /\ save_pc = "idle"
    /\ it_pc = "none"
    /\ out = NoOut
    /\ file \in OldFiles

\* the arguments of a call, whose mapping can be built when none is given
Called(md, given, umeta, c) ==
    /\ given = "None" => ~DictRaises(c, md)
    /\ umeta => (md /\ c # <<>>)
    /\ corpus' = c
    /\ save_metadata' = md
    /\ unicode_meta' = umeta
    /\ unicode_words' = (given = "unicode")
    /\ save_id2word' = IF given = "None" THEN DictFromCorpus(c) ELSE Id2Word

\* lines 84-92: the mapping is built when none is given, the file is opened
\* for writing, which empties it
SaveStart ==
    /\ Callable
    /\ \E md \in BOOLEAN, given \in Mappings, umeta \in BOOLEAN :
         \E c \in Corpora(md) : Called(md, given, umeta, c)
    /\ file' = <<>>
    /\ handles' = Open(handles)
    /\ save_pc' = "writing"
    /\ offsets' = <<>>
    /\ truncated' = 0
    /\ UNCHANGED <<save_err, warnings>>
    /\ UNCHANGED <<self_vars, it_vars>>

\* lines 84-86: no mapping is given and utils.dict_from_corpus raises on the
\* (bag, metadata) entries; the file has not been opened
SaveStartDictError ==
    /\ Callable
    /\ \E c \in Corpora(TRUE), umeta \in BOOLEAN :
         /\ DictRaises(c, TRUE)
         /\ corpus' = c
         /\ unicode_meta' = umeta
         /\ save_err' = DictError(c)
    /\ save_metadata' = TRUE
    /\ save_pc' = "raised"
    /\ offsets' = <<>>
    /\ truncated' = 0
    /\ UNCHANGED <<file, handles, save_id2word, unicode_words, warnings>>
    /\ UNCHANGED <<self_vars, it_vars>>

\* line 92: utils.smart_open raises IOError; nothing is opened or written
SaveStartIOError ==
    /\ Callable
    /\ \E md \in BOOLEAN, given \in Mappings, umeta \in BOOLEAN :
         \E c \in Corpora(md) : Called(md, given, umeta, c)
    /\ save_pc' = "raised"
    /\ save_err' = "IOError"
    /\ offsets' = <<>>
    /\ truncated' = 0
    /\ UNCHANGED <<file, handles, warnings>>
    /\ UNCHANGED <<self_vars, it_vars>>

\* the document the loop of line 93 is at, and its position: an offset is
\* in the table for each document before it, and for it behind line 105
Pos == IF save_pc = "appended" THEN Len(offsets) - 1 ELSE Len(offsets)

Entry == corpus[Pos + 1]

\* whether the loop body gets past line 104, and past line 106's formatting
Looked ==
    FirstFailing(DocOf(Entry, save_metadata), save_id2word, unicode_words) = 0

Formatted == ~FormatRaises(Entry, save_metadata, unicode_meta, save_id2word)

\* lines 93-105: the words of one document are collected, its truncations
\* counted, and the position of the file is appended to offsets
SaveDocWords ==
    /\ save_pc = "writing"
    /\ Pos < Len(corpus)
    /\ Looked
    /\ LET doc == DocOf(Entry, save_metadata) IN
         /\ truncated' = truncated + Truncations(doc, Len(doc))
         /\ offsets' = Append(offsets, Tell(file))
    /\ save_pc' = "appended"
    /\ UNCHANGED <<file, handles, save_err, warnings>>
    /\ UNCHANGED <<self_vars, arg_vars, it_vars>>

\* line 106: the line of the document is written, to the buffer of the file
\* object; file is what fout.tell() measures, the bytes written so far
SaveDocWrite ==
    /\ save_pc = "appended"
    /\ Formatted
    /\ file' = file \o SaveLine(Pos, Entry, save_metadata, save_id2word)
    /\ save_pc' = "writing"
    /\ UNCHANGED <<handles, save_err, offsets, truncated, warnings>>
    /\ UNCHANGED <<self_vars, arg_vars, it_vars>>

\* an exception leaves the with block of line 92, which closes the file: the
\* bytes written are flushed and err goes on to the caller, or the flush
\* fails, a part of them is in the file and IOError takes the place of err
LeaveWith(err, bytes, fails) ==
    /\ handles' = Close(handles)
    /\ save_pc' = "raised"
    /\ IF fails THEN save_err' = "IOError" /\ file' \in Flushed(bytes)
       ELSE save_err' = err /\ file' = bytes

\* line 104: id2word[wordid] raises KeyError, or str() of a unicode word
\* raises UnicodeEncodeError; the file is closed with the lines before
SaveDocLookupError ==
    /\ save_pc = "writing"
    /\ Pos < Len(corpus)
    /\ ~Looked
    /\ LET doc == DocOf(Entry, save_metadata)
           k == FirstFailing(doc, save_id2word, unicode_words)
       IN /\ truncated' = truncated + Truncations(doc, k)
          /\ LeaveWith(LookupError(doc[k], save_id2word), file, FALSE)
    /\ UNCHANGED <<offsets, warnings>>
    /\ UNCHANGED <<self_vars, arg_vars, it_vars>>

\* line 104 raises, and the close of the file raises IOError
SaveDocLookupCloseIOError ==
    /\ save_pc = "writing"
    /\ Pos < Len(corpus)
    /\ ~Looked
    /\ LET doc == DocOf(Entry, save_metadata)
           k == FirstFailing(doc, save_id2word, unicode_words)
       IN /\ truncated' = truncated + Truncations(doc, k)
          /\ LeaveWith(LookupError(doc[k], save_id2word), file, TRUE)
    /\ UNCHANGED <<offsets, warnings>>
    /\ UNCHANGED <<self_vars, arg_vars, it_vars>>

\* line 106: the formatting of the line raises UnicodeDecodeError; the file
\* is closed with the lines before, the offset of line 105 is in the table
SaveDocFormatError ==
    /\ save_pc = "appended"
    /\ ~Formatted
    /\ LeaveWith("UnicodeDecodeError", file, FALSE)
    /\ UNCHANGED <<offsets, truncated, warnings>>
    /\ UNCHANGED <<self_vars, arg_vars, it_vars>>

\* line 106: the formatting raises, and the close of the file raises IOError
SaveDocFormatCloseIOError ==
    /\ save_pc = "appended"
    /\ ~Formatted
    /\ LeaveWith("UnicodeDecodeError", file, TRUE)
    /\ UNCHANGED <<offsets, truncated, warnings>>
    /\ UNCHANGED <<self_vars, arg_vars, it_vars>>

\* line 106: fout.write flushes the buffer and the flush raises; the file is
\* left with a part of the bytes written
SaveDocIOError ==
    /\ save_pc = "appended"
    /\ Formatted
    /\ LeaveWith("IOError",
                 file \o SaveLine(Pos, Entry, save_metadata, save_id2word), TRUE)
    /\ UNCHANGED <<offsets, truncated, warnings>>
    /\ UNCHANGED <<self_vars, arg_vars, it_vars>>

\* line 92, leaving the with block behind the loop: the file is closed, the
\* flush of its buffer raises; every offset is there, the lines are not, and
\* nothing is logged or returned
SaveCloseIOError ==
    /\ save_pc = "writing"
    /\ Pos = Len(corpus)
    /\ LeaveWith("IOError", file, TRUE)
    /\ UNCHANGED <<offsets, truncated, warnings>>
    /\ UNCHANGED <<self_vars, arg_vars, it_vars>>

\* lines 92-113: the loop ends, the file is closed, the warning is logged
SaveFinish ==
    /\ save_pc = "writing"
    /\ Pos = Len(corpus)
    /\ handles' = Close(handles)
    /\ warnings' = IF truncated # 0 THEN Append(warnings, truncated) ELSE warnings
    /\ save_pc' = "done"
    /\ UNCHANGED <<file, save_err, offsets, truncated>>
    /\ UNCHANGED <<self_vars, arg_vars, it_vars>>

(***************************************************************************)
(* The corpus object reading the file.                                     *)
(***************************************************************************)
\* the corpus object reads a file save_corpus is not writing; a file that
\* save_corpus left unfinished when it raised is not read
Readable == save_pc \in {"idle", "done"}

\* _calculate_num_docs, called while no generator is under way
CalculateNumDocs ==
    /\ Readable
    /\ it_pc \in {"none", "done", "raised"}
    /\ out' = [op |-> "count", arg |-> 0, n |-> Len(Lines(file)),
               res |-> Raised("none")]
    /\ handles' = Close(Open(handles))
    /\ UNCHANGED <<file, metadata, id2word, it_pc, it_pos, yielded>>
    /\ UNCHANGED save_vars

\* __iter__ is called: a generator is created, nothing of it has run
IterStart ==
    /\ Readable
    /\ it_pc \in {"none", "done", "raised", "closed"}
    /\ it_pc' = "created"
    /\ it_pos' = 0
    /\ yielded' = <<>>
    /\ out' = [op |-> "iter", arg |-> 0, n |-> 0, res |-> Raised("none")]
    /\ UNCHANGED <<file, handles, metadata, id2word>>
    /\ UNCHANGED save_vars

\* the handles once the generator runs: its first step opens the file
Running == IF it_pc = "created" THEN Open(handles) ELSE handles

\* next(): the generator reads a line, decodes it and yields the document
IterNext ==
    /\ it_pc \in {"created", "suspended"}
    /\ it_pos < Len(IterLines(file))
    /\ LET res == line2doc(IterLines(file)[it_pos + 1], metadata, id2word) IN
         /\ res.err = "none"
         /\ out' = [op |-> "next", arg |-> it_pos + 1, n |-> 0, res |-> res]
         /\ yielded' = Append(yielded, res)
    /\ it_pc' = "suspended"
    /\ it_pos' = it_pos + 1
    /\ handles' = Running
    /\ UNCHANGED <<file, metadata, id2word>>
    /\ UNCHANGED save_vars

\* next(): line2doc raises, the with block closes the file
IterNextRaise ==
    /\ it_pc \in {"created", "suspended"}
    /\ it_pos < Len(IterLines(file))
    /\ LET res == line2doc(IterLines(file)[it_pos + 1], metadata, id2word) IN
         /\ res.err # "none"
         /\ out' = [op |-> "next", arg |-> it_pos + 1, n |-> 0, res |-> res]
    /\ it_pc' = "raised"
    /\ it_pos' = it_pos + 1
    /\ handles' = Close(Running)
    /\ UNCHANGED <<file, metadata, id2word, yielded>>
    /\ UNCHANGED save_vars

\* next(): the file is exhausted, the with block closes it, StopIteration
IterStop ==
    /\ it_pc \in {"created", "suspended"}
    /\ it_pos = Len(IterLines(file))
    /\ out' = [op |-> "stop", arg |-> it_pos, n |-> 0, res |-> Raised("none")]
    /\ it_pc' = "done"
    /\ handles' = Close(Running)
    /\ UNCHANGED <<file, metadata, id2word, it_pos, yielded>>
    /\ UNCHANGED save_vars

\* the consumer leaves its loop early and keeps the generator
IterAbandon ==
    /\ it_pc = "suspended"
    /\ it_pc' = "abandoned"
    /\ UNCHANGED <<file, handles, metadata, id2word, it_pos, yielded, out>>
    /\ UNCHANGED save_vars

\* the generator is closed or collected: GeneratorExit leaves the with block
IterClose ==
    /\ it_pc \in {"suspended", "abandoned"}
    /\ it_pc' = "closed"
    /\ handles' = Close(handles)
    /\ UNCHANGED <<file, metadata, id2word, it_pos, yielded, out>>
    /\ UNCHANGED save_vars

\* where the lines of the file start, and its end
LineStarts ==
    {0} \cup {i \in 1..Len(file) : file[i] = "\n"}

\* the offsets docbyoffset is called with: a line start, or a little behind
Offsets == {s + d : s \in LineStarts, d \in 0..MaxSkew}

\* docbyoffset(offset), called once while no generator has been made
DocByOffset ==
    /\ Readable
    /\ it_pc = "none"
    /\ out.op # "docbyoffset"
    /\ \E offset \in Offsets :
         out' = [op |-> "docbyoffset", arg |-> offset, n |-> 0,
                 res |-> line2doc(ReadLine(file, offset), metadata, id2word)]
    /\ handles' = Close(Open(handles))
    /\ UNCHANGED <<file, metadata, id2word, it_pc, it_pos, yielded>>
    /\ UNCHANGED save_vars

Next ==
    \/ SaveStart
    \/ SaveStartDictError
    \/ SaveStartIOError
    \/ SaveDocWords
    \/ SaveDocWrite
    \/ SaveDocLookupError
    \/ SaveDocLookupCloseIOError
    \/ SaveDocFormatError
    \/ SaveDocFormatCloseIOError
    \/ SaveDocIOError
    \/ SaveCloseIOError
    \/ SaveFinish
    \/ CalculateNumDocs
    \/ IterStart
    \/ IterNext
    \/ IterNextRaise
    \/ IterStop
    \/ IterAbandon
    \/ IterClose
    \/ DocByOffset

Spec == Init /\ [][Next]_vars

(***************************************************************************)
(* Vocabulary of the properties.  None of it uses an operator of the       *)
(* writing or of the decoding: each property states the result anew.       *)
(***************************************************************************)
AsSet(seq) == {seq[i] : i \in 1..Len(seq)}

RECURSIVE Sum(_)
Sum(ns) == IF ns = <<>> THEN 0 ELSE ns[1] + Sum(Tail(ns))

\* the copies of its token a count stands for: its integer part, if positive
Copies(v) == IF v >= One THEN (v - (v % One)) \div One ELSE 0

\* a count, a double, that is farther than the tolerance from its integer
\* part; the double of a count 1e-6 from its integer part n is farther from
\* it exactly for n in RoundedAway
Fractional(v) ==
    \/ (Abs(v) % One) > Tolerance
    \/ (Abs(v) % One) = Tolerance /\ (Abs(v) \div One) \in RoundedAway

\* the text of a written line, without its newline
Body(line) == LET text == ToUnicode(line) IN SubSeq(text, 1, Len(text) - 1)

\* the exceptions of save_corpus that leave the file closed in good order
\* behind the documents written before
Rendering == {"KeyError", "UnicodeEncodeError", "UnicodeDecodeError"}

\* the documents save_corpus has written: behind line 105, and when line
\* 106 raised, the last offset is that of a line not written
Written == IF save_pc = "appended" \/ save_err = "UnicodeDecodeError"
           THEN Len(offsets) - 1
           ELSE Len(offsets)

\* save_corpus has opened the file, and no I/O error has cut it
Saving ==
    \/ save_pc \in {"writing", "appended", "done"}
    \/ save_pc = "raised" /\ save_err \in Rendering

\* the bag of words of the i-th document given to save_corpus
Given(i) == IF save_metadata THEN corpus[i][1] ELSE corpus[i]

\* the fields of the i-th line of the file, cut at every single space
Cut(i) == SplitAcc(Body(Lines(file)[i]), <<>>, {" "})

\* C3: in every line save_corpus writes, with metadata mode off and on, the
\* doc-id field is the decimal rendering of the zero-based position of the
\* document, never the doc-id of the document's metadata.
C3_DocIdIsPosition ==
    Saving => \A i \in 1..Written : Cut(i)[1] = Str(i - 1)

\* C3 holds when the documents carry no metadata
C3_WithoutMetadata ==
    (Saving /\ ~save_metadata) => \A i \in 1..Written : Cut(i)[1] = Str(i - 1)

\* the tokens the i-th document stands for: per pair, in pair order,
\* Copies(count) times the token of the id
ExpectedTokens(i, toks) ==
    LET doc == Given(i)
        before(k) == Sum([j \in 1..(k - 1) |-> Copies(doc[j][2])])
    IN /\ Len(toks) = before(Len(doc) + 1)
       /\ \A k \in 1..Len(doc) : \A c \in 1..Copies(doc[k][2]) :
             toks[before(k) + c] = save_id2word[doc[k][1]]

\* every line save_corpus writes is "<doc-id> <label> <tokens>\n"; the label
\* is the supplied one in metadata mode and __unknown__ otherwise; the tokens
\* are, pair after pair, the token of the id repeated trunc(count) times
\* (none when that is 0 or less), joined by single spaces.
LinesRendered ==
    Saving =>
        /\ Len(Lines(file)) = Written
        /\ \A i \in 1..Written :
            LET line == Lines(file)[i]
                f == Cut(i)
            IN /\ line[Len(line)] = "\n"
               /\ Len(f) >= 3
               /\ f[2] = IF save_metadata THEN corpus[i][2][2] ELSE Unknown
               /\ IF SubSeq(f, 3, Len(f)) = << <<>> >>
                  THEN ExpectedTokens(i, <<>>)
                  ELSE ExpectedTokens(i, SubSeq(f, 3, Len(f)))

\* a document with a pair of count 3 was written after another one, in
\* metadata mode
LinesRenderedWitness ==
    /\ save_pc = "done"
    /\ Written = 2
    /\ \E k \in 1..Len(Given(2)) : Given(2)[k][2] = 3 * One
    /\ Len(Given(1)) = 2
    /\ save_metadata

\* every id of the documents given is in the mapping
IdsPresent ==
    \A i \in 1..Len(corpus) : \A k \in 1..Len(Given(i)) :
        Given(i)[k][1] \in DOMAIN save_id2word

\* C4: for every document save_corpus writes one line, rendered as
\* LinesRendered says, so a pair (X, 3) gives 3 occurrences of the token of
\* X: the call does not raise over a document whose ids are in the mapping,
\* unless the file cannot be written.
C4_LineRendering ==
    /\ LinesRendered
    /\ (save_pc = "raised" /\ IdsPresent) => save_err = "IOError"

\* the pairs with a fractional count in the documents given
Events ==
    Sum([i \in 1..Len(corpus) |->
            Cardinality({k \in 1..Len(Given(i)) : Fractional(Given(i)[k][2])})])

\* the token fields of the i-th line of the file
TokensOf(i) ==
    LET f == Cut(i)
    IN IF Len(f) < 3 \/ SubSeq(f, 3, Len(f)) = << <<>> >> THEN <<>>
       ELSE SubSeq(f, 3, Len(f))

\* C5: a fractional count never aborts save_corpus; the tokens of every
\* document are written with the truncated count (2.7 gives 2 occurrences);
\* and the call reports once, after the last document, the number of pairs
\* with a fractional count, if there is one, and otherwise nothing.
C5_TruncationPolicy ==
    /\ Saving =>
          /\ Len(Lines(file)) = Written
          /\ \A i \in 1..Written : ExpectedTokens(i, TokensOf(i))
    /\ save_pc \in {"idle", "writing", "appended", "raised"} => warnings = <<>>
    /\ save_pc = "done" =>
          warnings = IF Events > 0 THEN <<Events>> ELSE <<>>
    /\ save_pc = "raised" =>
          \/ save_err = "IOError"
          \/ /\ save_err \in {"ValueError", "TypeError"}
             /\ save_metadata /\ offsets = <<>>
          \/ /\ save_err = "KeyError"
             /\ \E k \in 1..Len(Given(Written + 1)) :
                   Given(Written + 1)[k][1] \notin DOMAIN save_id2word
          \/ /\ save_err = "UnicodeEncodeError"
             /\ unicode_words
             /\ \E k \in 1..Len(Given(Written + 1)) :
                   LET id == Given(Written + 1)[k][1]
                   IN /\ id \in DOMAIN save_id2word
                      /\ "U+E9" \in AsSet(save_id2word[id])
          \/ /\ save_err = "UnicodeDecodeError"
             /\ save_metadata /\ unicode_meta
             /\ \E k \in 1..Len(Given(Written + 1)) :
                   /\ Copies(Given(Written + 1)[k][2]) > 0
                   /\ "U+E9" \in AsSet(save_id2word[Given(Written + 1)[k][1]])

\* two documents, three fractional counts, one notice; the count 2.7 of the
\* first document is in the file as two tokens
C5_Witness ==
    /\ save_pc = "done"
    /\ Len(corpus) = 2
    /\ warnings = <<3>>
    /\ Given(1) # <<>>
    /\ Given(1)[1] = <<0, (27 * One) \div 10>>
    /\ SubSeq(TokensOf(1), 1, 2) = << <<"a", "b">>, <<"a", "b">> >>
    /\ \A k \in 3..Len(TokensOf(1)) : TokensOf(1)[k] # <<"a", "b">>

\* the bytes of the first n lines of the file
BytesBefore(n) == Sum([j \in 1..n |-> Len(Lines(file)[j])])

\* every offset is the length of the lines before its document, so the
\* table starts at 0
OffsetsAreStarts ==
    /\ \A i \in 1..Len(offsets) : i <= Len(Lines(file)) + 1
    /\ \A i \in 1..Len(offsets) : offsets[i] = BytesBefore(i - 1)
    /\ (offsets # <<>> => offsets[1] = 0)

C6_WitnessAppended ==
    /\ save_pc = "appended"
    /\ Len(offsets) = 2
    /\ offsets[2] > 0
    /\ Len(Lines(file)) = 1

\* a decoded bag of words, its counts in the unit of the given counts
Scaled(doc) == {<<doc[k][1], doc[k][2] * One>> : k \in 1..Len(doc)}

\* every count given to save_corpus satisfies P
AllCounts(P(_)) ==
    \A i \in 1..Len(corpus) : \A k \in 1..Len(Given(i)) : P(Given(i)[k][2])

IsInteger(v) == v % One = 0

IsPositiveInteger(v) == v % One = 0 /\ v >= One

\* the corpus object reads with the words save_corpus wrote with: its
\* mapping gives every id the word, as a unicode object, that the mapping of
\* save_corpus gives it
SameMapping == id2word = save_id2word

\* iterating over the file save_corpus wrote yields the bags it was given
RoundTrip ==
    /\ it_pc # "raised"
    /\ Len(yielded) <= Len(corpus)
    /\ \A i \in 1..Len(yielded) : Scaled(yielded[i].doc) = AsSet(Given(i))
    /\ (it_pc = "done" => Len(yielded) = Len(corpus))

\* C1: for every corpus whose counts are integers (0 included) and whose ids
\* are in the mapping, save_corpus writes the file, unless the file cannot
\* be written, and iterating over that file yields at every position the bag
\* of the document given at that position.
C1_RoundTripIntegers ==
    (AllCounts(IsInteger) /\ IdsPresent) =>
        /\ save_pc = "raised" => save_err = "IOError"
        /\ (save_pc = "done" /\ SameMapping) => RoundTrip

\* what holds of the round trip: a corpus whose counts are positive integers
\* is read back as given once save_corpus has written it
RoundTripPositive ==
    (save_pc = "done" /\ SameMapping /\ AllCounts(IsPositiveInteger))
        => RoundTrip

\* two documents with positive integer counts, the first of two pairs, were
\* written and read back to the end
RoundTripWitness ==
    /\ save_pc = "done"
    /\ SameMapping
    /\ AllCounts(IsPositiveInteger)
    /\ Len(corpus) = 2
    /\ Len(Given(1)) = 2
    /\ Given(2) # <<>>
    /\ it_pc = "done"
    /\ Len(yielded) = 2

\* the bag a written document decodes to: per pair with a positive integer
\* part, the id and that integer part
Truncated(doc) ==
    {<<doc[k][1], Copies(doc[k][2]) * One>> :
        k \in {j \in 1..Len(doc) : Copies(doc[j][2]) > 0}}

\* docbyoffset at the i-th offset save_corpus returned gives the bag b, and
\* the metadata of the i-th document when both calls are in metadata mode
AtOffset(i, b) ==
    /\ out.res.err = "none"
    /\ Scaled(out.res.doc) = b
    /\ Len(out.res.doc) = Cardinality(b)
    /\ (metadata /\ save_metadata) => out.res.meta = corpus[i][2]

\* C2 as stated: docbyoffset, of a corpus object with the mapping
\* save_corpus wrote with, at offset[i] of the table save_corpus returned,
\* returns the bag of words of the i-th document given to save_corpus, and
\* its metadata in metadata mode.
C2_OffsetGivesInput ==
    (save_pc = "done" /\ SameMapping /\ out.op = "docbyoffset") =>
        \A i \in 1..Len(offsets) :
            out.arg = offsets[i] => AtOffset(i, AsSet(Given(i)))

\* C2 amended: docbyoffset, of a corpus object whose mapping holds the
\* words save_corpus wrote with as unicode objects, at offset[i] returns the
\* i-th document as it was written: its counts truncated toward zero, its
\* pairs without a positive truncated count left out, and the text of its
\* doc-id and label when both calls are in metadata mode; it returns no
\* other document.
C2_OffsetGivesWritten ==
    (save_pc = "done" /\ SameMapping /\ out.op = "docbyoffset") =>
        \A i \in 1..Len(offsets) :
            out.arg = offsets[i] => AtOffset(i, Truncated(Given(i)))

\* the second document, with the counts -1.5 and 3.000001 and metadata, is
\* looked up behind a different first one
C2_Witness ==
    /\ save_pc = "done"
    /\ SameMapping
    /\ out.op = "docbyoffset"
    /\ Len(offsets) = 2
    /\ out.arg = offsets[2]
    /\ metadata /\ save_metadata
    /\ Given(2) # <<>>
    /\ Given(2)[1][2] = -((15 * One) \div 10)
    /\ Given(1) # Given(2)
    /\ Given(1) # <<>>

(***************************************************************************)
(* The fields of a line, found by position: the text between its first and *)
(* its last character that is not whitespace, cut at the spaces.           *)
(***************************************************************************)
Inner(text) == {i \in 1..Len(text) : text[i] \notin Whitespace}

First(text) == CHOOSE i \in Inner(text) : \A j \in Inner(text) : i <= j

Last(text) == CHOOSE i \in Inner(text) : \A j \in Inner(text) : j <= i

\* where a field starts
Starts(text) ==
    IF Inner(text) = {} THEN {}
    ELSE LET first == First(text)
         IN {i \in first..Last(text) :
                text[i] # " " /\ (i = first \/ text[i - 1] = " ")}

\* the field that starts at i
FieldAt(text, i) ==
    LET last == Last(text)
        end == CHOOSE j \in i..last :
                  /\ \A k \in i..j : text[k] # " "
                  /\ (j = last \/ text[j + 1] = " ")
    IN SubSeq(text, i, end)

\* the starts of the fields in order: 1 is the doc-id, 2 the label
Nth(text, n) ==
    CHOOSE i \in Starts(text) : Cardinality({j \in Starts(text) : j < i}) = n - 1

\* how often the word occurs behind the label
Occurrences(text, word) ==
    LET label == Nth(text, 2)
    IN Cardinality({i \in Starts(text) : i > label /\ FieldAt(text, i) = word})

\* the line the last call decoded
Decoding == out.op \in {"next", "docbyoffset"}

DecodedLine ==
    IF out.op = "next" THEN Lines(file)[out.arg] ELSE ReadLine(file, out.arg)

\* C7: a line with fewer than 2 fields makes line2doc raise, no document is
\* returned, and the error ends __iter__ and docbyoffset, at any offset; a
\* line with 2 fields or more does not raise it.
C7_MalformedLine ==
    (Decoding /\ Decodable(DecodedLine)) =>
        LET text == ToUnicode(DecodedLine) IN
        /\ (Cardinality(Starts(text)) < 2) <=> (out.res.err = "IndexError")
        /\ out.res.err = "IndexError" => out.res.shape = "none"
        /\ (out.res.err = "IndexError" /\ out.op = "next") =>
              /\ it_pc = "raised"
              /\ Len(yielded) = out.arg - 1

\* docbyoffset inside a line save_corpus wrote, where one field is left
C7_Witness ==
    /\ save_pc = "done"
    /\ out.op = "docbyoffset"
    /\ out.arg \notin AsSet(offsets)
    /\ out.arg < Len(file)
    /\ ReadLine(file, out.arg) # <<"\n">>
    /\ out.res.err = "IndexError"

\* C8: a line with 2 fields or more decodes to one (id, count) pair per
\* distinct word of the mapping behind the label, count being the number of
\* its occurrences; other words give no pair and no error; the doc-id and
\* the label come with the bag exactly in metadata mode.
C8_DecodeResult ==
    (Decoding /\ out.res.err = "none") =>
        LET text == ToUnicode(DecodedLine)
            doc == out.res.doc
        IN /\ out.res.shape = IF metadata THEN "doc,meta" ELSE "doc"
           /\ metadata =>
                 out.res.meta = <<FieldAt(text, Nth(text, 1)),
                                  FieldAt(text, Nth(text, 2))>>
           /\ ~metadata => out.res.meta = <<>>
           /\ \A k \in 1..Len(doc) :
                 /\ doc[k][1] \in DOMAIN id2word
                 /\ doc[k][2] > 0
                 /\ doc[k][2] = Occurrences(text, id2word[doc[k][1]])
                 /\ \A j \in 1..Len(doc) : doc[j][1] = doc[k][1] => j = k
           /\ \A id \in DOMAIN id2word :
                 Occurrences(text, id2word[id]) > 0 =>
                    \E k \in 1..Len(doc) : doc[k][1] = id

\* a line with a word outside the mapping and a word inside it is decoded
\* in metadata mode
C8_Witness ==
    /\ Decoding
    /\ out.res.err = "none"
    /\ metadata
    /\ out.res.doc # <<>>
    /\ Occurrences(ToUnicode(DecodedLine), <<"z">>) > 0

\* the number of lines of a file: its newlines, and an unfinished last line
LineCount(bytes) ==
    Cardinality({i \in 1..Len(bytes) : bytes[i] = "\n"})
    + (IF bytes # <<>> /\ bytes[Len(bytes)] # "\n" THEN 1 ELSE 0)

\* a line line2doc accepts
WellFormed(line) ==
    Decodable(line) /\ Cardinality(Starts(ToUnicode(line))) >= 2

\* C9 as stated, its part on blank lines: __iter__ does not decode a blank
\* line, so no iteration ends with the error of one.
C9_BlankLineNotDecoded ==
    it_pc = "raised" => Lines(file)[it_pos] # <<"\n">>

\* C9 amended: __iter__ decodes every line of the file in file order, blank
\* ones included, and yields one document per line until a line is
\* malformed, which ends the iteration with the error; when no line is
\* malformed it yields as many documents as _calculate_num_docs counts; a
\* new iteration starts again at the first line.
C9_IterationEveryLine ==
    /\ Len(yielded) <= LineCount(file)
    /\ \A k \in 1..Len(yielded) :
          /\ WellFormed(Lines(file)[k])
          /\ yielded[k] = line2doc(Lines(file)[k], metadata, id2word)
    /\ it_pc \in {"suspended", "abandoned", "closed", "done"} =>
          it_pos = Len(yielded)
    /\ it_pc = "raised" =>
          /\ it_pos = Len(yielded) + 1
          /\ ~WellFormed(Lines(file)[it_pos])
    /\ it_pc = "done" => Len(yielded) = LineCount(file)
    /\ it_pc \in {"none", "created"} => (yielded = <<>> /\ it_pos = 0)
    /\ out.op = "count" => out.n = LineCount(file)

\* an iteration over a document and a blank line behind it
C9_Witness ==
    /\ it_pc = "raised"
    /\ Len(yielded) = 1
    /\ Lines(file)[it_pos] = <<"\n">>
    /\ out.op = "count"
    /\ out.n = 2

\* C10 as stated: whenever no call is in progress no handle is open, also
\* after an iteration that its consumer stopped before the last line.
C10_NoHandleWhenIdle ==
    (save_pc \notin {"writing", "appended"} /\ it_pc # "suspended")
        => handles = 0

\* C10 amended: a handle is open exactly while save_corpus writes and while
\* a generator of __iter__ has started and is neither exhausted, nor ended
\* by an error, nor closed; every call that returns or raises has released
\* its handle, and the generator a consumer stopped early holds its handle
\* until it is closed.
C10_HandlesScoped ==
    handles = (IF save_pc \in {"writing", "appended"} THEN 1 ELSE 0)
              + (IF it_pc \in {"suspended", "abandoned"} THEN 1 ELSE 0)

\* save_corpus has returned, and an iteration over the two lines it wrote
\* was stopped behind the first and closed
C10_Witness ==
    /\ save_pc = "done"
    /\ Written = 2
    /\ it_pc = "closed"
    /\ it_pos = 1
    /\ handles = 0

\* save_corpus raised KeyError behind a written document
C10_WitnessRaised ==
    /\ save_pc = "raised"
    /\ save_err = "KeyError"
    /\ Written = 1
    /\ handles = 0

=============================================================================
